---- MODULE Spec2Model ----
(***************************************************************************)
(* A state-machine model of src/src/lib/keyBindings/index.js, the          *)
(* KeyBindings store: the mapping `value`, the diff baseline               *)
(* #oldKeyBindings, the listener registry #on, the persisted file, and     *)
(* the async methods init / update / reset / #save cut at their awaits.    *)
(***************************************************************************)
EXTENDS Naturals, Sequences, FiniteSets, TLC

VARIABLES
  list,               \* KeyBindingsList as imported (line 1); fixed per run
  defaultKeyBindings, \* #defaultKeyBindings (line 18)
  value,              \* value (line 19): own keys -> descriptor
  shared,             \* keys k whose value[k] IS the object defaultKeyBindings[k]
  oldKeyBindings,     \* #oldKeyBindings (line 20)
  initialized,        \* #initialized (line 11)
  editor,             \* #editor (line 21)
  commands,           \* names registered in editor.commands.byName
  on,                 \* #on (line 12): event name -> sequence of callbacks
  file,               \* the document at window.KEYBINDING_FILE
  calls               \* the async calls: position, locals, trace of effects

vars == <<list, defaultKeyBindings, value, shared, oldKeyBindings, initialized,
          editor, commands, on, file, calls>>

-----------------------------------------------------------------------------
(* JavaScript values.  A descriptor is a record: t is its typeof, key the   *)
(* legacy plain shortcut field, win the bindKey.win field, p the payload of *)
(* a primitive.  "" stands for an absent field.                             *)

Undefined == [t |-> "undefined", key |-> "", win |-> "", p |-> ""]
Obj(k, w) == [t |-> "object", key |-> k, win |-> w, p |-> ""]
Str(s) == [t |-> "string", key |-> "", win |-> "", p |-> s]
ProtoFn == [t |-> "function", key |-> "", win |-> "", p |-> "Object.prototype"]

Truthy(v) == v.t # "undefined" /\ ~(v.t = "string" /\ v.p = "")

\* Property names every plain object inherits from Object.prototype.
ProtoKeys == {"toString"}
DefaultKeys == {"a", "c"}
\* Property order of the mappings: defaults first, keys added later after.
KeyOrder == <<"a", "c", "toString", "zzz">>

Range(s) == {s[i] : i \in 1..Len(s)}

\* m[k]: an own property, else an inherited one, else undefined.
Get(m, k) ==
  IF k \in DOMAIN m THEN m[k]
  ELSE IF k \in ProtoKeys THEN ProtoFn ELSE Undefined

\* `k in m` (line 74): own or inherited.
In(m, k) == k \in DOMAIN m \/ k \in ProtoKeys

\* m.hasOwnProperty(k) (line 114).
HasOwnProperty(m, k) == k \in DOMAIN m

\* Object.keys(m), in property order.
ObjectKeys(m) == SelectSeq(KeyOrder, LAMBDA k : k \in DOMAIN m)

\* structuredClone: a structurally equal copy sharing no object with its
\* argument (the sharing is tracked by the variable `shared`).
StructuredClone(m) == [k \in DOMAIN m |-> m[k]]

\* JSON.stringify(this.value, undefined, 4) followed by the JSON parse of
\* readFile("json"): properties holding undefined or a function are dropped.
JsonStringify(m) ==
  [k \in {j \in DOMAIN m : m[j].t \notin {"undefined", "function"}} |-> m[k]]

\* helpers.areEqual: structural equality of two values.
AreEqual(x, y) == x = y

NoBaseline == [defined |-> FALSE, m |-> << >>]
Baseline(m) == [defined |-> TRUE, m |-> m]

NoFile == [state |-> "missing", doc |-> << >>]
EmptyFile == [state |-> "empty", doc |-> << >>]
JsonFile(d) == [state |-> "json", doc |-> d]

-----------------------------------------------------------------------------
(* Events a call leaves in its trace.                                       *)

Invoke(ph, cb, k, arg) == [ph |-> ph, cb |-> cb, key |-> k, arg |-> arg]
SaveEvent == Invoke("save", "", "", Undefined)
ToastEvent == Invoke("toast", "", "", Undefined)

\* this.#on[event] when it is an array (lines 80-81, 94-95), else nothing.
Listeners(reg, ev) == IF ev \in DOMAIN reg THEN reg[ev] ELSE << >>

\* Lines 79-86 and 93-100: the listener array is extended, never reset, from
\* one changed key to the next, and every listener of the array is invoked
\* with the key's value.
RECURSIVE Dispatch(_, _, _, _, _, _)
Dispatch(keys, acc, reg, suffix, val, ph) ==
  IF keys = << >> THEN << >>
  ELSE LET k == Head(keys)
           ls == acc \o Listeners(reg, "update:" \o k \o suffix)
       IN [i \in 1..Len(ls) |-> Invoke(ph, ls[i], k, Get(val, k))]
            \o Dispatch(Tail(keys), ls, reg, suffix, val, ph)

ResetDispatch_Reversed(reg, val) ==
  LET ls == Listeners(reg, "reset")
  IN [i \in 1..Len(ls) |-> Invoke("reset", ls[Len(ls) + 1 - i], "", val)]

\* Line 120.
ResetDispatch(reg, val) ==
  LET ls == Listeners(reg, "reset")
  IN [i \in 1..Len(ls) |-> Invoke("reset", ls[i], "", val)]

-----------------------------------------------------------------------------
(* #getChangedKeys, lines 185-199.                                          *)

Differs_ByType(old, new) == old.t # new.t

\* Lines 189-195.
Differs(old, new) ==
  IF old.t = "object" THEN ~AreEqual(old, new) ELSE old # new

GetChangedKeys_All(old, val) ==
  IF ~old.defined THEN << >> ELSE ObjectKeys(old.m)

\* Lines 186-198.
GetChangedKeys(old, val) ==
  IF ~old.defined THEN << >>
  ELSE SelectSeq(ObjectKeys(old.m), LAMBDA k : Differs(old.m[k], Get(val, k)))

-----------------------------------------------------------------------------
(* applyBindings, lines 205-225.                                            *)

CommandRecord(k) == [name |-> k, key |-> "", win |-> "default"]

\* Lines 214-220: shortcut.bindKey = {win: shortcut.key}; delete shortcut.key.
Normalize(d) == IF d.key # "" THEN [d EXCEPT !.win = d.key, !.key = ""] ELSE d

\* Line 222: Object.assign({}, command, shortcut).
Merge(cmd, d) ==
  [name |-> cmd.name,
   key |-> IF d.key # "" THEN d.key ELSE cmd.key,
   win |-> IF d.win # "" THEN d.win ELSE cmd.win]

Applied_AnyDescriptor(keys, val, cmds) ==
  SelectSeq(keys, LAMBDA k : k \in cmds)

\* Line 212: the keys that are not skipped.
Applied(keys, val, cmds) ==
  SelectSeq(keys, LAMBDA k : k \in cmds /\ Truthy(Get(val, k)))

ApplyValue(keys, val, cmds) ==
  [k \in DOMAIN val |->
     IF k \in Range(Applied(keys, val, cmds)) THEN Normalize(val[k]) ELSE val[k]]

\* The descriptor is normalized in place: when value[k] is the very object
\* of the defaults (line 115), the defaults change with it.
ApplyDefaults(keys, val, cmds, defs, sh) ==
  [k \in DOMAIN defs |->
     IF k \in sh /\ k \in Range(Applied(keys, val, cmds))
     THEN Normalize(val[k]) ELSE defs[k]]

ApplyLog(keys, val, cmds) ==
  LET ks == Applied(keys, val, cmds)
  IN [i \in 1..Len(ks) |->
        Invoke("addCommand", "", ks[i],
               Merge(CommandRecord(ks[i]), Normalize(Get(val, ks[i]))))]

-----------------------------------------------------------------------------
(* Inputs.                                                                  *)

Editors == {"E1", "E2"}
NoEditor == "undefined"

\* The defaults: one descriptor in the legacy shape {key}, one in the shape
\* {bindKey: {win}}, either way round.
Lists ==
  {[k \in DefaultKeys |-> IF k = "a" THEN Obj("X", "") ELSE Obj("", "X")],
   [k \in DefaultKeys |-> IF k = "a" THEN Obj("", "X") ELSE Obj("X", "")]}

\* The editor's command table: a command for "a", none for "c".
CommandTables == {{"a"}}

NoArg == [kind |-> "none", b |-> FALSE, m |-> << >>, keys |-> {}]
BoolArg(b) == [kind |-> "boolean", b |-> b, m |-> << >>, keys |-> {}]
PatchArg(m) == [kind |-> "object", b |-> FALSE, m |-> m, keys |-> {}]
KeysArg(ks) == [kind |-> "keys", b |-> FALSE, m |-> << >>, keys |-> ks]

Input(arg, showToast, saveFile) ==
  [arg |-> arg, showToast |-> showToast, saveFile |-> saveFile]

\* The calls of update: (keyBindings, showToast, saveFile).
UpdateInputs ==
  {Input(PatchArg([k \in {"a"} |-> Obj("Y", "")]), TRUE, TRUE),
   Input(PatchArg([k \in {"a"} |-> Undefined]), FALSE, TRUE),
   Input(PatchArg([k \in {"c"} |-> Obj("Y", "")]), FALSE, FALSE),
   Input(PatchArg([k \in DefaultKeys |-> Obj("Y", "")]), FALSE, TRUE),
   Input(PatchArg([k \in {"zzz"} |-> Obj("Y", "")]), FALSE, TRUE),
   Input(PatchArg([k \in {"toString"} |-> Str("s")]), FALSE, TRUE),
   Input(BoolArg(TRUE), FALSE, TRUE),
   Input(NoArg, FALSE, FALSE)}

\* The calls of reset: the keys listed.
ResetKeys == {{}, {"a"}, {"c"}, {"a", "zzz"}}

\* The listeners the application registers at start-up.
Registry ==
  [e \in {"update", "update:a", "update:c", "update:after", "update:a:after",
          "update:c:after", "reset"} |->
     CASE e = "update" -> <<"L">>
       [] e = "update:a" -> <<"M">>
       [] e = "update:c" -> <<"N">>
       [] e = "update:after" -> <<"LA">>
       [] e = "update:a:after" -> <<"MA">>
       [] e = "update:c:after" -> <<"NA">>
       [] e = "reset" -> <<"R1", "R2">>]

-----------------------------------------------------------------------------
(* The calls.                                                               *)

Slots == {"c1", "c2"}

Idle ==
  [pc |-> "idle", op |-> "", ctx |-> "", arg |-> NoArg, showToast |-> FALSE,
   saveFile |-> FALSE, text |-> << >>, changed |-> << >>, after |-> << >>,
   existed |-> "", kb |-> << >>, log |-> << >>, ev |-> "", cb |-> ""]

Running(s) == calls[s].pc \notin {"idle", "done", "error"}

Init ==
  /\ list \in Lists
  /\ defaultKeyBindings = StructuredClone(list)
  /\ value = StructuredClone(list)
  /\ shared = {}
  /\ oldKeyBindings = NoBaseline
  /\ initialized = FALSE
  /\ editor = NoEditor
  /\ commands \in CommandTables
  /\ on = Registry
  /\ file \in {NoFile, EmptyFile}
  /\ calls = [s \in Slots |-> Idle]

-----------------------------------------------------------------------------
(* update, lines 63-101.                                                    *)

\* Lines 72-76: only keys that are `in` this.value are written.
ApplyPatch(val, m) ==
  [k \in DOMAIN val \cup {j \in DOMAIN m : In(val, j)} |->
     IF k \in DOMAIN m THEN m[k] ELSE val[k]]

Finish_Live(c, val, reg) ==
  (IF c.showToast THEN <<ToastEvent>> ELSE << >>)
    \o Dispatch(c.changed, Listeners(reg, "update:after"), reg, ":after", val, "after")
    \o (IF c.ctx \in {"reset", "init_reset"} THEN ResetDispatch(reg, val) ELSE << >>)

\* Lines 91-100, and line 120 when update was awaited by reset: what runs
\* once the save step is over (or was skipped).
Finish(c, val, reg) ==
  (IF c.showToast THEN <<ToastEvent>> ELSE << >>)
    \o Dispatch(c.changed, c.after, reg, ":after", val, "after")
    \o (IF c.ctx \in {"reset", "init_reset"} THEN ResetDispatch(reg, val) ELSE << >>)

Resume_AfterFirst(c, val, reg) == Finish(c, val, reg) \o <<SaveEvent>>

\* Lines 90-100 once line 176 has resolved: the write, then the rest.
Resume(c, val, reg) == <<SaveEvent>> \o Finish(c, val, reg)

\* Lines 64-90, from the value val0 left by the caller: up to the first await
\* of #save (line 171) when saveFile is set, to the end of update otherwise.
\* The destructuring of line 206-208 throws when #editor is undefined.
UpdateFrom(s, c0, val0, sh0, arg, toastArg, saveArg) ==
  LET showToast == IF arg.kind = "boolean" THEN arg.b ELSE toastArg
      onupdate == Listeners(on, "update")
      onupdateAfter == Listeners(on, "update:after")
      val1 == IF arg.kind = "object" THEN ApplyPatch(val0, arg.m) ELSE val0
      sh1 == IF arg.kind = "object" THEN sh0 \ DOMAIN arg.m ELSE sh0
      changed == GetChangedKeys(oldKeyBindings, val1)
      before == Dispatch(changed, onupdate, on, "", val1, "before")
      val2 == ApplyValue(changed, val1, commands)
      c1 == [c0 EXCEPT !.showToast = showToast, !.saveFile = saveArg,
                       !.changed = changed, !.after = onupdateAfter,
                       !.log = c0.log \o before]
      c2 == [c1 EXCEPT !.log = @ \o ApplyLog(changed, val1, commands)]
  IN IF editor = NoEditor
     THEN /\ value' = val1
          /\ shared' = sh1
          /\ calls' = [calls EXCEPT ![s] = [c1 EXCEPT !.pc = "error"]]
          /\ UNCHANGED defaultKeyBindings
     ELSE /\ value' = val2
          /\ shared' = sh1
          /\ defaultKeyBindings' =
               ApplyDefaults(changed, val1, commands, defaultKeyBindings, sh1)
          /\ calls' = [calls EXCEPT ![s] =
               IF saveArg
               THEN [c2 EXCEPT !.pc = "save_exists", !.text = JsonStringify(val2)]
               ELSE [c2 EXCEPT !.pc = "done", !.log = @ \o Finish(c2, val2, on)]]

\* What a listener that throws leaves in the trace after its invocation e.
Thrown(e) == Invoke("throw", e.cb, e.key, Undefined)

UpdateThrows_Continues(s, c0, val0, sh0, arg, toastArg) ==
  LET val1 == IF arg.kind = "object" THEN ApplyPatch(val0, arg.m) ELSE val0
      changed == GetChangedKeys(oldKeyBindings, val1)
      before == Dispatch(changed, Listeners(on, "update"), on, "", val1, "before")
  IN \E n \in 1..Len(before) :
     /\ value' = val1
     /\ shared' = IF arg.kind = "object" THEN sh0 \ DOMAIN arg.m ELSE sh0
     /\ calls' = [calls EXCEPT ![s] =
          [c0 EXCEPT !.pc = "error",
                     !.showToast = IF arg.kind = "boolean" THEN arg.b ELSE toastArg,
                     !.changed = changed,
                     !.after = Listeners(on, "update:after"),
                     !.log = c0.log \o SubSeq(before, 1, n) \o <<Thrown(before[n])>>
                               \o SubSeq(before, n + 1, Len(before))]]
     /\ UNCHANGED defaultKeyBindings

\* Lines 64-86 when some listener invocation of the before phase, the n-th,
\* throws:
\* nothing catches it, the loops of lines 79-86 are left and the promise of
\* update rejects before line 88.
UpdateThrows(s, c0, val0, sh0, arg, toastArg) ==
  LET val1 == IF arg.kind = "object" THEN ApplyPatch(val0, arg.m) ELSE val0
      changed == GetChangedKeys(oldKeyBindings, val1)
      before == Dispatch(changed, Listeners(on, "update"), on, "", val1, "before")
  IN \E n \in 1..Len(before) :
     /\ value' = val1
     /\ shared' = IF arg.kind = "object" THEN sh0 \ DOMAIN arg.m ELSE sh0
     /\ calls' = [calls EXCEPT ![s] =
          [c0 EXCEPT !.pc = "error",
                     !.showToast = IF arg.kind = "boolean" THEN arg.b ELSE toastArg,
                     !.changed = changed,
                     !.after = Listeners(on, "update:after"),
                     !.log = c0.log \o SubSeq(before, 1, n) \o <<Thrown(before[n])>>]]
     /\ UNCHANGED defaultKeyBindings

Start(op, ctx, arg) ==
  [Idle EXCEPT !.op = op, !.ctx = ctx, !.arg = arg]

UpdateCall(s, arg, showToast, saveFile) ==
  /\ ~Running(s)
  /\ UpdateFrom(s, Start("update", "update", arg), value, shared, arg,
                showToast, saveFile)
  /\ UNCHANGED <<list, oldKeyBindings, initialized, editor, commands, on, file>>

\* update(keyBindings, showToast, saveFile) with a before-phase listener that
\* throws.
UpdateCallThrows(s, arg, showToast, saveFile) ==
  /\ ~Running(s)
  /\ UpdateThrows(s, [Start("update", "update", arg) EXCEPT !.saveFile = saveFile],
                  value, shared, arg, showToast)
  /\ UNCHANGED <<list, oldKeyBindings, initialized, editor, commands, on, file>>

-----------------------------------------------------------------------------
(* reset, lines 108-121.                                                    *)

ResetValue_All(val, defs, keys) == StructuredClone(defs)

\* Line 110, or lines 113-116: a listed key of the defaults is assigned the
\* defaults' own object.
ResetValue(val, defs, keys) ==
  IF keys = {} THEN StructuredClone(defs)
  ELSE [k \in DOMAIN val \cup {j \in keys : HasOwnProperty(defs, j)} |->
          IF k \in keys /\ HasOwnProperty(defs, k) THEN defs[k] ELSE val[k]]

ResetShared(sh, defs, keys) ==
  IF keys = {} THEN {} ELSE sh \cup {j \in keys : HasOwnProperty(defs, j)}

ResetCall(s, keys) ==
  /\ ~Running(s)
  /\ UpdateFrom(s, Start("reset", "reset", KeysArg(keys)),
                ResetValue(value, defaultKeyBindings, keys),
                ResetShared(shared, defaultKeyBindings, keys),
                BoolArg(FALSE), TRUE, TRUE)
  /\ UNCHANGED <<list, oldKeyBindings, initialized, editor, commands, on, file>>

\* reset(...keyBindings) whose update (line 119) rejects because a
\* before-phase listener throws.
ResetCallThrows(s, keys) ==
  /\ ~Running(s)
  /\ UpdateThrows(s, [Start("reset", "reset", KeysArg(keys)) EXCEPT !.saveFile = TRUE],
                  ResetValue(value, defaultKeyBindings, keys),
                  ResetShared(shared, defaultKeyBindings, keys),
                  BoolArg(FALSE), TRUE)
  /\ UNCHANGED <<list, oldKeyBindings, initialized, editor, commands, on, file>>

-----------------------------------------------------------------------------
(* init, lines 28-54.                                                       *)

InitCall_NoGuard(s, ed) ==
  /\ ~Running(s)
  /\ editor' = ed
  /\ initialized' = TRUE
  /\ calls' = [calls EXCEPT ![s] =
                 [Start("init", "init", NoArg) EXCEPT !.pc = "init_exists"]]
  /\ UNCHANGED <<list, defaultKeyBindings, value, shared, oldKeyBindings,
                 commands, on, file>>

\* Lines 29-32, up to the await of fs.exists() on line 34.
InitCall(s, ed) ==
  /\ ~Running(s)
  /\ IF initialized
     THEN /\ calls' = [calls EXCEPT ![s] =
                         [Start("init", "init", NoArg) EXCEPT !.pc = "done"]]
          /\ UNCHANGED <<editor, initialized>>
     ELSE /\ editor' = ed
          /\ initialized' = TRUE
          /\ calls' = [calls EXCEPT ![s] =
                         [Start("init", "init", NoArg) EXCEPT !.pc = "init_exists"]]
  /\ UNCHANGED <<list, defaultKeyBindings, value, shared, oldKeyBindings,
                 commands, on, file>>

InitExists_ViaReset(s) ==
  /\ calls[s].pc = "init_exists"
  /\ calls' = [calls EXCEPT ![s] =
       IF file.state = "missing"
       THEN [@ EXCEPT !.pc = "save_exists", !.ctx = "init_reset",
                      !.existed = "no", !.text = JsonStringify(value)]
       ELSE [@ EXCEPT !.pc = "init_read", !.existed = "yes"]]
  /\ UNCHANGED <<list, defaultKeyBindings, value, shared, oldKeyBindings,
                 initialized, editor, commands, on, file>>

\* Line 34 resolves: without a file, #save starts (lines 168-171); with one,
\* readFile is awaited (line 41).
InitExists(s) ==
  /\ calls[s].pc = "init_exists"
  /\ calls' = [calls EXCEPT ![s] =
       IF file.state = "missing"
       THEN [@ EXCEPT !.pc = "save_exists", !.ctx = "init_first",
                      !.existed = "no", !.text = JsonStringify(value)]
       ELSE [@ EXCEPT !.pc = "init_read", !.existed = "yes"]]
  /\ UNCHANGED <<list, defaultKeyBindings, value, shared, oldKeyBindings,
                 initialized, editor, commands, on, file>>

\* Lines 44-51: the loop goes over the entries of the defaults and compares
\* each default with itself; the document is patched only where the default
\* is undefined.
Heal(doc, defs) ==
  [k \in DOMAIN doc \cup {j \in DOMAIN defs : defs[j] = Undefined \/ defs[j].t # defs[j].t} |->
     IF k \in DOMAIN defs /\ (defs[k] = Undefined \/ defs[k].t # defs[k].t)
     THEN defs[k] ELSE doc[k]]

\* Line 41 resolves: lines 42-53, then reset() and update(false) up to the
\* await in #save.  The healed document stays in the local keyBindings.
InitRead(s) ==
  /\ calls[s].pc = "init_read"
  /\ IF file.state # "json"
     THEN /\ calls' = [calls EXCEPT ![s] = [@ EXCEPT !.pc = "done"]]
          /\ UNCHANGED <<defaultKeyBindings, value, shared>>
     ELSE UpdateFrom(s, [calls[s] EXCEPT !.ctx = "init_reset",
                                        !.kb = Heal(file.doc, defaultKeyBindings)],
                     ResetValue(value, defaultKeyBindings, {}),
                     ResetShared(shared, defaultKeyBindings, {}),
                     BoolArg(FALSE), TRUE, TRUE)
  /\ UNCHANGED <<list, oldKeyBindings, initialized, editor, commands, on, file>>

-----------------------------------------------------------------------------
(* #save, lines 167-178.                                                    *)

\* Line 171 resolves.
SaveExists(s) ==
  /\ calls[s].pc = "save_exists"
  /\ calls' = [calls EXCEPT ![s] =
       [@ EXCEPT !.pc = IF file.state = "missing" THEN "save_create" ELSE "save_write"]]
  /\ UNCHANGED <<list, defaultKeyBindings, value, shared, oldKeyBindings,
                 initialized, editor, commands, on, file>>

\* Line 173 resolves: the file exists, empty.
SaveCreate(s) ==
  /\ calls[s].pc = "save_create"
  /\ file' = IF file.state = "missing" THEN EmptyFile ELSE file
  /\ calls' = [calls EXCEPT ![s] = [@ EXCEPT !.pc = "save_write"]]
  /\ UNCHANGED <<list, defaultKeyBindings, value, shared, oldKeyBindings,
                 initialized, editor, commands, on>>

SaveWrite_NoRefresh(s) ==
  LET c == calls[s]
  IN /\ c.pc = "save_write"
     /\ file' = JsonFile(c.text)
     /\ calls' = [calls EXCEPT ![s] =
          [c EXCEPT !.pc = "done", !.log = @ \o Resume(c, value, on)]]
     /\ UNCHANGED <<list, defaultKeyBindings, value, shared, oldKeyBindings,
                    initialized, editor, commands, on>>

\* Line 176 resolves: line 177, then the caller goes on: init at lines
\* 36-38, update at lines 91-100, reset at line 120.
SaveWrite(s) ==
  LET c == calls[s]
  IN /\ c.pc = "save_write"
     /\ file' = JsonFile(c.text)
     /\ IF c.ctx = "init_first"
        THEN /\ value' = StructuredClone(defaultKeyBindings)
             /\ shared' = {}
             /\ oldKeyBindings' = Baseline(StructuredClone(defaultKeyBindings))
             /\ calls' = [calls EXCEPT ![s] =
                  [c EXCEPT !.pc = "done", !.log = @ \o <<SaveEvent>>]]
        ELSE /\ oldKeyBindings' = Baseline(StructuredClone(value))
             /\ calls' = [calls EXCEPT ![s] =
                  [c EXCEPT !.pc = "done", !.log = @ \o Resume(c, value, on)]]
             /\ UNCHANGED <<value, shared>>
     /\ UNCHANGED <<list, defaultKeyBindings, initialized, editor, commands, on>>

SaveWriteFails_Swallowed(s) ==
  LET c == calls[s]
  IN /\ c.pc = "save_write"
     /\ oldKeyBindings' = Baseline(StructuredClone(value))
     /\ calls' = [calls EXCEPT ![s] =
          [c EXCEPT !.pc = "done", !.log = @ \o Finish(c, value, on)]]
     /\ UNCHANGED <<list, defaultKeyBindings, value, shared, initialized,
                    editor, commands, on, file>>

\* Line 176 rejects: the rejection propagates through every awaiting caller.
SaveWriteFails(s) ==
  /\ calls[s].pc = "save_write"
  /\ calls' = [calls EXCEPT ![s] = [@ EXCEPT !.pc = "error"]]
  /\ UNCHANGED <<list, defaultKeyBindings, value, shared, oldKeyBindings,
                 initialized, editor, commands, on, file>>

-----------------------------------------------------------------------------
(* on and off, lines 128-142.                                               *)

MaxListeners == 3

\* indexOf (line 140): the first position of cb in ls, 0 when there is none.
IndexOf(ls, cb) ==
  IF cb \in Range(ls) THEN CHOOSE i \in 1..Len(ls) :
                             ls[i] = cb /\ \A j \in 1..(i - 1) : ls[j] # cb
  ELSE 0

\* Lines 129-130: the registry after on(ev, cb).
Registered(reg, ev, cb) ==
  [e \in DOMAIN reg \cup {ev} |->
     IF e = ev THEN Append(Listeners(reg, ev), cb) ELSE reg[e]]

Unregistered_Last(reg, ev, cb) ==
  LET ls == Listeners(reg, ev)
      last == IF cb \in Range(ls) THEN CHOOSE i \in 1..Len(ls) :
                                        ls[i] = cb /\ \A j \in (i + 1)..Len(ls) : ls[j] # cb
              ELSE 0
  IN [e \in DOMAIN reg \cup {ev} |->
        IF e # ev THEN reg[e]
        ELSE IF last = 0 THEN ls
        ELSE SubSeq(ls, 1, last - 1) \o SubSeq(ls, last + 1, Len(ls))]

\* Lines 139-141: the registry after off(ev, cb).
Unregistered(reg, ev, cb) ==
  LET ls == Listeners(reg, ev)
      index == IndexOf(ls, cb)
  IN [e \in DOMAIN reg \cup {ev} |->
        IF e # ev THEN reg[e]
        ELSE IF index = 0 THEN ls
        ELSE SubSeq(ls, 1, index - 1) \o SubSeq(ls, index + 1, Len(ls))]

\* on(event, callback).
On(s, ev, cb) ==
  /\ ~Running(s)
  /\ Len(Listeners(on, ev)) < MaxListeners
  /\ on' = Registered(on, ev, cb)
  /\ calls' = [calls EXCEPT ![s] =
       [Start("on", "on", NoArg) EXCEPT !.pc = "done", !.ev = ev, !.cb = cb]]
  /\ UNCHANGED <<list, defaultKeyBindings, value, shared, oldKeyBindings,
                 initialized, editor, commands, file>>

\* off(event, callback).
Off(s, ev, cb) ==
  /\ ~Running(s)
  /\ on' = Unregistered(on, ev, cb)
  /\ calls' = [calls EXCEPT ![s] =
       [Start("off", "off", NoArg) EXCEPT !.pc = "done", !.ev = ev, !.cb = cb]]
  /\ UNCHANGED <<list, defaultKeyBindings, value, shared, oldKeyBindings,
                 initialized, editor, commands, file>>

-----------------------------------------------------------------------------
(* The application is started again: the module is evaluated anew (lines    *)
(* 11-21, 228) over the file the previous run left.                         *)

Restart ==
  /\ \A s \in Slots : ~Running(s)
  /\ initialized
  /\ defaultKeyBindings' = StructuredClone(list)
  /\ value' = StructuredClone(list)
  /\ shared' = {}
  /\ oldKeyBindings' = NoBaseline
  /\ initialized' = FALSE
  /\ editor' = NoEditor
  /\ calls' = [s \in Slots |-> Idle]
  /\ UNCHANGED <<list, commands, on, file>>

-----------------------------------------------------------------------------
(* Calls made one at a time, as section 5 of the specification asks of the  *)
(* caller: a call starts when no other is in flight.                        *)

(* update and reset follow init (section 2); the editor handles are         *)
(* interchangeable, and the first one recorded is named E1.                 *)

Quiet == \A s \in Slots : ~Running(s)

Next ==
  \/ \E ed \in Editors : Quiet /\ (initialized \/ ed = "E1") /\ InitCall("c1", ed)
  \/ \E i \in UpdateInputs :
       Quiet /\ initialized /\ UpdateCall("c1", i.arg, i.showToast, i.saveFile)
  \/ \E ks \in ResetKeys : Quiet /\ initialized /\ ResetCall("c1", ks)
  \/ InitExists("c1")
  \/ InitRead("c1")
  \/ SaveExists("c1")
  \/ SaveCreate("c1")
  \/ SaveWrite("c1")
  \/ SaveWriteFails("c1")
  \/ Restart

Spec == Init /\ [][Next]_vars

-----------------------------------------------------------------------------
(* Listeners that may throw: any invocation of the before phase may be the   *)
(* one that does.                                                           *)

\* The calls during which a listener throws.
ThrowUpdateInputs ==
  {Input(PatchArg([k \in DefaultKeys |-> Obj("Y", "")]), TRUE, TRUE),
   Input(PatchArg([k \in {"c"} |-> Obj("Y", "")]), FALSE, FALSE)}

ThrowResetKeys == {{}, {"a"}}

NextThrow ==
  \/ Next
  \/ \E i \in ThrowUpdateInputs :
       Quiet /\ initialized /\ UpdateCallThrows("c1", i.arg, i.showToast, i.saveFile)
  \/ \E ks \in ThrowResetKeys : Quiet /\ initialized /\ ResetCallThrows("c1", ks)

SpecThrow == Init /\ [][NextThrow]_vars

-----------------------------------------------------------------------------
(* Update cycles one after the other, with and without persistence: a patch *)
(* in the legacy shape, a patch that returns a key to the value the         *)
(* defaults have, and cycles without a patch.                               *)

CycleInputs ==
  {Input(PatchArg([k \in {"a"} |-> Obj("Y", "")]), FALSE, TRUE),
   Input(PatchArg([k \in {"a"} |-> Obj("Y", "")]), FALSE, FALSE),
   Input(PatchArg([k \in {"c"} |-> Obj("Y", "")]), FALSE, FALSE),
   Input(PatchArg([k \in {"c"} |-> Obj("", "X")]), FALSE, FALSE),
   Input(NoArg, FALSE, FALSE),
   Input(NoArg, FALSE, TRUE)}

NextCycles ==
  \/ \E ed \in Editors : Quiet /\ (initialized \/ ed = "E1") /\ InitCall("c1", ed)
  \/ \E i \in CycleInputs :
       Quiet /\ initialized /\ UpdateCall("c1", i.arg, i.showToast, i.saveFile)
  \/ Quiet /\ initialized /\ ResetCall("c1", {})
  \/ InitExists("c1")
  \/ InitRead("c1")
  \/ SaveExists("c1")
  \/ SaveCreate("c1")
  \/ SaveWrite("c1")
  \/ SaveWriteFails("c1")
  \/ Restart

SpecCycles == Init /\ [][NextCycles]_vars

-----------------------------------------------------------------------------
(* Calls that overlap: a second call is made while the first is suspended   *)
(* on the storage, which nothing in the code prevents.                      *)

ConcLists == {[k \in DefaultKeys |-> IF k = "a" THEN Obj("X", "") ELSE Obj("", "X")]}

ConcUpdateInputs ==
  {Input(PatchArg([k \in {"a"} |-> Obj("Y", "")]), FALSE, TRUE),
   Input(PatchArg([k \in {"c"} |-> Obj("Y", "")]), FALSE, FALSE)}

ConcResetKeys == {{}, {"a"}}

\* The slot a new call takes: the first one that is not in flight.
Free(s) == ~Running(s) /\ (s = "c1" \/ Running("c1"))

InitConc == Init /\ list \in ConcLists

NextConc ==
  \/ \E s \in Slots, ed \in Editors :
       Free(s) /\ (initialized \/ ed = "E1") /\ InitCall(s, ed)
  \/ \E s \in Slots, i \in ConcUpdateInputs :
       Free(s) /\ initialized /\ UpdateCall(s, i.arg, i.showToast, i.saveFile)
  \/ \E s \in Slots, ks \in ConcResetKeys :
       Free(s) /\ initialized /\ ResetCall(s, ks)
  \/ \E s \in Slots : InitExists(s)
  \/ \E s \in Slots : InitRead(s)
  \/ \E s \in Slots : SaveExists(s)
  \/ \E s \in Slots : SaveCreate(s)
  \/ \E s \in Slots : SaveWrite(s)
  \/ \E s \in Slots : SaveWriteFails(s)

SpecConc == InitConc /\ [][NextConc]_vars

-----------------------------------------------------------------------------
(* The registry on its own.                                                 *)

\* The calls of on and off made by the application: on a generic event, on
\* an event that has no list yet, with a callback that is registered and
\* one that is not.
OnOffEvents == {"update", "fresh"}
OnOffCallbacks == {"L", "P"}

NextOnOff ==
  \/ \E ev \in OnOffEvents, cb \in OnOffCallbacks : On("c1", ev, cb)
  \/ \E ev \in OnOffEvents, cb \in OnOffCallbacks : Off("c1", ev, cb)

SpecOnOff == Init /\ [][NextOnOff]_vars

-----------------------------------------------------------------------------
(* Listeners that register and remove listeners while they are invoked      *)
(* (lines 85 and 99), and calls of on and off made while update is          *)
(* suspended in #save.                                                      *)

\* What the listener of invocation e does to the registry: L registers P for
\* update:after; P removes itself from the event it was invoked for.
Effect(reg, e) ==
  IF e.cb = "L" /\ e.ph = "before"
  THEN IF Len(Listeners(reg, "update:after")) < MaxListeners
       THEN Registered(reg, "update:after", "P") ELSE reg
  ELSE IF e.cb = "P" /\ e.ph = "before" THEN Unregistered(reg, "update", "P")
  ELSE IF e.cb = "P" /\ e.ph = "after" THEN Unregistered(reg, "update:after", "P")
  ELSE reg

RECURSIVE Effects(_, _)
Effects(reg, l) ==
  IF l = << >> THEN reg ELSE Effects(Effect(reg, Head(l)), Tail(l))

\* update(keyBindings, showToast, saveFile) with such listeners.
UpdateCallNotifies(s, arg, showToast, saveFile) ==
  /\ ~Running(s)
  /\ UpdateFrom(s, Start("update", "update", arg), value, shared, arg,
                showToast, saveFile)
  /\ on' = Effects(on, calls'[s].log)
  /\ UNCHANGED <<list, oldKeyBindings, initialized, editor, commands, file>>

\* Line 176 resolves, with such listeners.
SaveWriteNotifies(s) ==
  LET c == calls[s]
  IN /\ c.pc = "save_write"
     /\ file' = JsonFile(c.text)
     /\ IF c.ctx = "init_first"
        THEN /\ value' = StructuredClone(defaultKeyBindings)
             /\ shared' = {}
             /\ oldKeyBindings' = Baseline(StructuredClone(defaultKeyBindings))
             /\ calls' = [calls EXCEPT ![s] =
                  [c EXCEPT !.pc = "done", !.log = @ \o <<SaveEvent>>]]
             /\ UNCHANGED on
        ELSE /\ oldKeyBindings' = Baseline(StructuredClone(value))
             /\ calls' = [calls EXCEPT ![s] =
                  [c EXCEPT !.pc = "done", !.log = @ \o Resume(c, value, on)]]
             /\ on' = Effects(on, Resume(c, value, on))
             /\ UNCHANGED <<value, shared>>
     /\ UNCHANGED <<list, defaultKeyBindings, initialized, editor, commands>>

RegInputs ==
  {Input(PatchArg([k \in {"a"} |-> Obj("Y", "")]), FALSE, TRUE),
   Input(PatchArg([k \in {"a"} |-> Undefined]), FALSE, TRUE),
   Input(PatchArg([k \in {"c"} |-> Obj("Y", "")]), FALSE, FALSE)}

NextReg ==
  \/ ~Running("c1") /\ InitCall("c1", "E1")
  \/ \E i \in RegInputs :
       ~Running("c1") /\ initialized
         /\ UpdateCallNotifies("c1", i.arg, i.showToast, i.saveFile)
  \/ InitExists("c1")
  \/ InitRead("c1")
  \/ SaveExists("c1")
  \/ SaveCreate("c1")
  \/ SaveWriteNotifies("c1")
  \/ \E ev \in {"update", "update:after"} : On("c2", ev, "P")
  \/ Off("c2", "update", "L")
  \/ Off("c2", "update:after", "LA")

SpecReg == InitConc /\ [][NextReg]_vars

-----------------------------------------------------------------------------
(* Properties.                                                              *)

KeyPos(k) == CHOOSE i \in 1..Len(KeyOrder) : KeyOrder[i] = k
Phases(l) == {l[i].ph : i \in 1..Len(l)}
Suspended(s) == calls[s].pc \in {"save_exists", "save_create", "save_write"}
Specific(k) == Range(Listeners(on, "update:" \o k))
SpecificAfter(k) == Range(Listeners(on, "update:" \o k \o ":after"))

\* C1: in the trace of every call, the before-phase listener invocations
\* come first, key by key in mapping order and each generic listener once
\* per changed key, then the storage write, then the after-phase
\* invocations; while the call is suspended in the save step no after-phase
\* listener has run, and a persisting call that ran one has written before.
C1_Order ==
  \A s \in Slots :
    LET c == calls[s]
        l == c.log
    IN /\ \A i, j \in 1..Len(l) :
            /\ l[i].ph = "before" /\ l[j].ph \in {"save", "after"} => i < j
            /\ l[i].ph = "save" /\ l[j].ph = "after" => i < j
            /\ l[i].ph = l[j].ph /\ l[i].ph \in {"before", "after"} /\ i < j
                 => KeyPos(l[i].key) <= KeyPos(l[j].key)
       /\ Suspended(s) => "after" \notin Phases(l) /\ "save" \notin Phases(l)
       /\ c.saveFile /\ "after" \in Phases(l) => "save" \in Phases(l)
       /\ (Suspended(s) \/ c.pc = "done") /\ c.saveFile =>
            \A k \in Range(c.changed), cb \in Range(Listeners(on, "update")) :
              \E i \in 1..Len(l) : l[i] = Invoke("before", cb, k, l[i].arg)
       /\ c.pc = "done" /\ c.saveFile /\ c.ctx # "init_first" =>
            /\ "save" \in Phases(l)
            /\ \A k \in Range(c.changed), cb \in Range(Listeners(on, "update:after")) :
                 \E i \in 1..Len(l) : l[i] = Invoke("after", cb, k, l[i].arg)

C1_Witness ==
  \E s \in Slots :
    /\ calls[s].pc = "done" /\ calls[s].op = "update" /\ calls[s].saveFile
    /\ Len(calls[s].changed) = 2
    /\ {"before", "save", "after"} \subseteq Phases(calls[s].log)

\* C2: a listener registered for update:<k> is invoked before the save only
\* for key k, with k's value.
C2_SpecificOnlyOwnKey ==
  \A s \in Slots, k \in DefaultKeys :
    \A i \in 1..Len(calls[s].log) :
      LET e == calls[s].log[i]
      IN e.ph = "before" /\ e.cb \in Specific(k) => e.key = k

\* C3: a listener registered for update:<k>:after is invoked only for key k,
\* and exactly once in a finished cycle that changed k.
C3_AfterSpecificOnce ==
  \A s \in Slots, k \in DefaultKeys :
    LET l == calls[s].log
        hits == {i \in 1..Len(l) : l[i].ph = "after" /\ l[i].cb \in SpecificAfter(k)}
    IN /\ \A i \in hits : l[i].key = k /\ l[i].arg = Get(value, k)
       /\ calls[s].pc = "done" /\ k \in Range(calls[s].changed)
            => Cardinality(hits) = Cardinality(SpecificAfter(k))

\* C4: when init on a fresh store has read a persisted document whose
\* per-key types match the defaults and has completed, current holds the
\* persisted values.
C4_RoundTrip ==
  \A s \in Slots :
    LET c == calls[s]
    IN c.op = "init" /\ c.pc = "done" /\ c.existed = "yes" /\ c.kb # << >>
       /\ (\A k \in DOMAIN defaultKeyBindings :
             k \in DOMAIN c.kb /\ c.kb[k].t = defaultKeyBindings[k].t)
       => \A k \in DOMAIN defaultKeyBindings : Get(value, k) = c.kb[k]

\* C5: once reset() with no arguments has completed, current equals the
\* defaults, and the diff a second reset() computes is empty.
C5_IdempotentReset ==
  \A s \in Slots :
    LET c == calls[s]
    IN c.op = "reset" /\ c.pc = "done" /\ c.arg.keys = {}
       => /\ value = defaultKeyBindings
          /\ GetChangedKeys(oldKeyBindings,
                            ResetValue(value, defaultKeyBindings, {})) = << >>

\* C6: the defaults keep the value they had at construction.
C6_DefaultsImmutable == defaultKeyBindings = list

\* C7: current has exactly the keys of the defaults.
C7_KeySet == DOMAIN value = DOMAIN defaultKeyBindings

\* C8: when init found no persisted file and has completed, current and the
\* baseline equal the defaults, the file holds the defaults, and the call
\* invoked no listener.
C8_FirstRun ==
  \A s \in Slots :
    LET c == calls[s]
    IN c.op = "init" /\ c.pc = "done" /\ c.existed = "no"
       => /\ value = defaultKeyBindings
          /\ oldKeyBindings = Baseline(defaultKeyBindings)
          /\ file = JsonFile(JsonStringify(defaultKeyBindings))
          /\ Phases(c.log) \subseteq {"save"}

C8_Witness ==
  \E s \in Slots :
    /\ calls[s].op = "init" /\ calls[s].pc = "done" /\ calls[s].existed = "no"
    /\ file.state = "json" /\ oldKeyBindings.defined

\* C9: an init call made when the store is already initialized returns at
\* once and changes nothing: not current, the baseline, the editor handle,
\* the file, nor any listener's trace.
C9_InitNoOp ==
  [][\A s \in Slots :
       initialized /\ ~Running(s) /\ calls'[s] # calls[s] /\ calls'[s].op = "init"
       => /\ calls'[s].pc = "done" /\ calls'[s].log = << >>
          /\ UNCHANGED <<value, oldKeyBindings, editor, file, defaultKeyBindings,
                         shared, initialized, on>>]_vars

C9_Witness ==
  /\ calls["c1"].op = "init" /\ Running("c1")
  /\ calls["c2"].op = "init" /\ calls["c2"].pc = "done"
  /\ editor = "E1" /\ ~oldKeyBindings.defined

Began(s, op) == ~Running(s) /\ calls'[s] # calls[s] /\ calls'[s].op = op

\* C11: an update whose patch has no key of current leaves current as it
\* was and, when current matched the baseline, computes an empty changed
\* set and invokes no listener; a patch with known and unknown keys changes
\* only the known keys and adds none.
C11_UnknownKeys ==
  [][\A s \in Slots :
       Began(s, "update") /\ calls'[s].arg.kind = "object"
       => LET m == calls'[s].arg.m
          IN /\ DOMAIN value' = DOMAIN value
             /\ \A k \in DOMAIN value \ DOMAIN m : value'[k] = value[k]
             /\ DOMAIN m \cap DOMAIN value = {}
                  => /\ value' = value
                     /\ GetChangedKeys(oldKeyBindings, value) = << >>
                          => /\ calls'[s].changed = << >>
                             /\ Phases(calls'[s].log) \cap {"before", "after"} = {}]_vars

\* C12: whenever no call is suspended in the save step, a defined baseline
\* is the document last written to the file.
C12_BaselineIsPersisted ==
  (\A s \in Slots : ~Suspended(s)) /\ oldKeyBindings.defined
    => file = JsonFile(JsonStringify(oldKeyBindings.m))

\* C12 as amended: the baseline is assigned in the step in which a write
\* resolves and in no other, it is then the value current has at that
\* moment, and as
\* long as no call has overlapped another it is the document in the file
\* whenever no call is suspended in the save step.
C12_BaselineAtWrite ==
  [][/\ ((\A s \in Slots : ~Suspended(s)) /\ oldKeyBindings.defined
           /\ calls["c2"] = Idle
         => file = JsonFile(JsonStringify(oldKeyBindings.m)))'
     /\ \A s \in Slots :
          calls[s].pc = "save_write" /\ calls'[s].pc = "done"
          => oldKeyBindings' = Baseline(value')
     /\ oldKeyBindings' # oldKeyBindings
        => /\ oldKeyBindings' = Baseline(value')
           /\ \E s \in Slots :
                /\ calls[s].pc = "save_write" /\ calls'[s].pc = "done"
                /\ file' = JsonFile(calls[s].text)]_vars

C12_Witness ==
  /\ calls["c2"] = Idle
  /\ calls["c1"].pc = "done" /\ calls["c1"].op = "update" /\ calls["c1"].saveFile
  /\ calls["c1"].changed # << >>
  /\ oldKeyBindings.defined /\ oldKeyBindings.m # defaultKeyBindings
  /\ file = JsonFile(JsonStringify(oldKeyBindings.m))

\* C13: a completed reset call (init's own included) ends its trace with one
\* invocation of each reset listener, in registration order, with the full
\* current mapping, after the write and every after-phase invocation; a call
\* that has not completed, and a plain update, have invoked none.
C13_ResetListeners ==
  \A s \in Slots :
    LET c == calls[s]
        l == c.log
        rs == Listeners(on, "reset")
        n == Len(l) - Len(rs)
    IN /\ c.op = "update" \/ c.pc # "done" => "reset" \notin Phases(l)
       /\ c.pc = "done" /\ c.ctx \in {"reset", "init_reset"}
          => /\ n >= 1
             /\ \A i \in 1..Len(rs) : l[n + i] = Invoke("reset", rs[i], "", value)
             /\ \A i \in 1..n : l[i].ph # "reset"
             /\ "save" \in {l[i].ph : i \in 1..n}

C13_Witness ==
  \E s \in Slots :
    /\ calls[s].pc = "done" /\ calls[s].op = "reset"
    /\ Len(calls[s].changed) = 2
    /\ {"before", "save", "after", "reset"} \subseteq Phases(calls[s].log)

\* C14: when the write is rejected the call ends in error in that step, with
\* the baseline, the file and current as they were, and its trace holds no
\* write, no confirmation, no after-phase and no reset invocation; no step
\* of a call that is still in flight or has failed assigns the baseline.
C14_WriteFails ==
  [][\A s \in Slots :
       /\ calls[s].pc = "save_write" /\ "save" \notin Phases(calls'[s].log)
          => /\ calls'[s] = [calls[s] EXCEPT !.pc = "error"]
             /\ UNCHANGED <<oldKeyBindings, file, value, defaultKeyBindings>>
             /\ Phases(calls'[s].log) \cap {"save", "toast", "after", "reset"} = {}
       /\ calls'[s] # calls[s] /\ calls'[s].pc \notin {"idle", "done"}
          => UNCHANGED oldKeyBindings]_vars

C14_Witness ==
  \E s \in Slots :
    /\ calls[s].pc = "error" /\ calls[s].op = "update" /\ calls[s].showToast
    /\ calls[s].changed # << >> /\ "before" \in Phases(calls[s].log)
    /\ oldKeyBindings.defined /\ GetChangedKeys(oldKeyBindings, value) # << >>

\* C15: when a before-phase listener throws, the trace of the call is the
\* before-phase dispatch up to the throwing invocation and nothing else, the
\* call ends in error in that step, current holds the patch (or the reset)
\* as assigned and not normalized by the editor synchronization, and the
\* baseline, the file and the defaults are as they were.
C15_BeforeThrow ==
  [][\A s \in Slots :
       LET c == calls'[s]
           l == c.log
           n == Len(l) - 1
           v == IF c.op = "reset"
                THEN ResetValue(value, defaultKeyBindings, c.arg.keys)
                ELSE IF c.arg.kind = "object" THEN ApplyPatch(value, c.arg.m)
                ELSE value
           full == Dispatch(GetChangedKeys(oldKeyBindings, v),
                            Listeners(on, "update"), on, "", v, "before")
       IN calls'[s] # calls[s] /\ "throw" \in Phases(l)
          => /\ c.pc = "error"
             /\ n >= 1 /\ n <= Len(full)
             /\ SubSeq(l, 1, n) = SubSeq(full, 1, n)
             /\ l[n + 1] = Thrown(full[n])
             /\ value' = v
             /\ UNCHANGED <<oldKeyBindings, file, defaultKeyBindings>>]_vars

C15_Witness ==
  \E s \in Slots :
    LET c == calls[s]
    IN /\ c.pc = "error" /\ c.op = "update" /\ c.saveFile
       /\ Len(c.changed) = 2
       /\ Len(c.log) = 2 /\ c.log[2].ph = "throw" /\ c.log[1].cb = "L"
       /\ value["a"] = Obj("Y", "")
       /\ "a" \in commands /\ editor # NoEditor
       /\ file.state = "json" /\ file.doc # JsonStringify(value)

\* The mapping an update, a reset or init's reset compares with the baseline
\* when the call in slot s takes the step: current after lines 72-76, or
\* after lines 109-117.
Compared(s) ==
  LET c == calls'[s]
  IN IF c.ctx = "init_reset" THEN StructuredClone(defaultKeyBindings)
     ELSE IF c.op = "reset" THEN ResetValue(value, defaultKeyBindings, c.arg.keys)
     ELSE IF c.arg.kind = "object" THEN ApplyPatch(value, c.arg.m)
     ELSE value

\* The step in which the call in slot s computes its changed keys (line 78).
Diffs(s) ==
  /\ calls'[s] # calls[s]
  /\ calls'[s].ctx \in {"update", "reset", "init_reset"}
  /\ ~Running(s) \/ calls[s].pc = "init_read"

\* C16: the changed keys a call computes are the keys of the baseline whose
\* baseline value is not equal to the value current holds for that key, in
\* the order of the baseline's keys; no other key is among them, and there
\* are none when the baseline is undefined.
C16_Diff ==
  [][\A s \in Slots :
       Diffs(s)
       => calls'[s].changed =
            IF oldKeyBindings.defined
            THEN SelectSeq(KeyOrder,
                   LAMBDA k : /\ k \in DOMAIN oldKeyBindings.m
                              /\ oldKeyBindings.m[k] # Get(Compared(s), k))
            ELSE << >>]_vars

C16_Witness ==
  \E s \in Slots :
    /\ calls[s].op = "update" /\ calls[s].pc = "done"
    /\ calls[s].changed = <<"c">>
    /\ oldKeyBindings.defined
    /\ DOMAIN oldKeyBindings.m = {"a", "c", "toString"}
    /\ oldKeyBindings.m["a"] = value["a"] /\ oldKeyBindings.m["c"] # value["c"]

\* C17 as stated: with a defined baseline, a key whose value an update's
\* patch changes is in the changed keys of that cycle; a key in the changed
\* keys of a completed cycle without persistence is in the changed keys of
\* the next cycle; and after a completed cycle with persistence the next
\* cycle's changed keys are keys that cycle modifies.
C17_EveryCycle ==
  [][\A s \in Slots :
       Diffs(s) /\ oldKeyBindings.defined /\ calls'[s].ctx = "update"
       => LET c == calls'[s]
              prev == calls[s]
              v == Compared(s)
          IN /\ \A k \in DOMAIN oldKeyBindings.m \cap DOMAIN value :
                  v[k] # value[k] => k \in Range(c.changed)
             /\ prev.pc = "done" /\ prev.ctx = "update" /\ ~prev.saveFile /\ ~c.saveFile
                => Range(prev.changed) \subseteq Range(c.changed)
             /\ prev.pc = "done" /\ prev.saveFile
                => \A k \in Range(c.changed) : Get(v, k) # Get(value, k)]_vars

\* C17 as amended: with a defined baseline, a key of the baseline that a
\* cycle leaves with a value different from the baseline's is in the changed
\* keys of that cycle and the generic update listener is invoked once for it;
\* a key in the changed keys of a completed cycle without persistence is in
\* the changed keys of the next cycle when its value still differs from the
\* baseline and the next cycle does not assign it; and after a completed
\* cycle with persistence the next cycle's changed keys are keys that cycle
\* modifies.
C17_WhileDifferent ==
  [][\A s \in Slots :
       Diffs(s) /\ oldKeyBindings.defined
       => LET c == calls'[s]
              prev == calls[s]
              v == Compared(s)
          IN /\ \A k \in DOMAIN oldKeyBindings.m :
                  Get(v, k) # oldKeyBindings.m[k]
                  => /\ k \in Range(c.changed)
                     /\ Cardinality({i \in 1..Len(c.log) :
                          c.log[i] = Invoke("before", "L", k, Get(v, k))}) = 1
             /\ prev.pc = "done" /\ ~prev.saveFile
                => \A k \in Range(prev.changed) :
                     /\ Get(value, k) # oldKeyBindings.m[k]
                     /\ Get(v, k) = Get(value, k)
                     => k \in Range(c.changed)
             /\ prev.pc = "done" /\ prev.saveFile
                => \A k \in Range(c.changed) : Get(v, k) # Get(value, k)]_vars

C17_Witness ==
  \E s \in Slots :
    /\ calls[s].pc = "done" /\ calls[s].op = "update"
    /\ calls[s].arg.kind = "none" /\ ~calls[s].saveFile
    /\ calls[s].changed = <<"a", "c">>
    /\ Len(calls[s].log) >= 4
    /\ oldKeyBindings.defined

\* The record addCommand is to receive for key k whose descriptor is d: the
\* command's fields, with the descriptor's binding, or its legacy shortcut
\* as the binding, in place of the command's.
Synchronized(k, d) ==
  [name |-> k, key |-> "",
   win |-> IF d.key # "" THEN d.key ELSE IF d.win # "" THEN d.win ELSE "default"]

\* C19: in the step in which a call computes its changed keys, its trace is
\* the before-phase invocations followed by one addCommand for each changed
\* key that names a command and has a descriptor, in the order of the
\* changed keys and with the command overlaid by the descriptor, and no
\* write precedes them; the descriptors so synchronized are left in current
\* without the legacy field; no later step of the call adds an addCommand.
C19_EditorSync ==
  [][\A s \in Slots :
       LET c == calls'[s]
           l == c.log
           v == Compared(s)
           ks == SelectSeq(c.changed, LAMBDA k : k \in commands /\ Get(v, k).t # "undefined")
           nb == Cardinality({i \in 1..Len(l) : l[i].ph = "before"})
       IN /\ Diffs(s)
             => /\ \A i \in 1..Len(l) :
                     /\ i <= nb => l[i].ph = "before"
                     /\ i \in (nb + 1)..(nb + Len(ks))
                        => l[i] = Invoke("addCommand", "", ks[i - nb],
                                         Synchronized(ks[i - nb], v[ks[i - nb]]))
                     /\ i > nb + Len(ks) => l[i].ph \notin {"before", "addCommand"}
                /\ Len(l) >= nb + Len(ks)
                /\ c.saveFile => "save" \notin Phases(l)
                /\ \A k \in Range(ks) :
                     value'[k].key = "" /\ value'[k].win = Synchronized(k, v[k]).win
          /\ Running(s) /\ ~Diffs(s)
             => /\ Len(l) >= Len(calls[s].log)
                /\ SubSeq(l, 1, Len(calls[s].log)) = calls[s].log
                /\ \A i \in (Len(calls[s].log) + 1)..Len(l) : l[i].ph # "addCommand"]_vars

C19_Witness ==
  \E s \in Slots :
    LET l == calls[s].log
    IN /\ calls[s].pc = "done" /\ calls[s].op = "update" /\ calls[s].saveFile
       /\ calls[s].changed = <<"a", "c">>
       /\ calls[s].arg.kind = "object" /\ calls[s].arg.m["a"].key = "Y"
       /\ {i \in 1..Len(l) : l[i].ph = "addCommand"} = {6}
       /\ l[6].key = "a" /\ l[6].arg = [name |-> "a", key |-> "", win |-> "Y"]
       /\ l[7].ph = "save"

\* The callbacks registered for the events of single keys.
SpecificCallbacks ==
  UNION {Range(on[e]) : e \in DOMAIN on \ {"update", "update:after", "reset"}}

\* The generic listeners that the trace l shows invoked in phase ph for key k.
Generic(l, ph, k) ==
  LET es == SelectSeq(l, LAMBDA e : e.ph = ph /\ e.key = k
                                      /\ e.cb \notin SpecificCallbacks)
  IN [i \in 1..Len(es) |-> es[i].cb]

\* C18: the generic listeners a call invokes for each changed key, before
\* and after the write, are the lists registered for update and
\* update:after in the state in which the call started, in their order; the
\* list kept for the after phase does not change while the call is in
\* flight, whatever on and off do to the registry meanwhile.
C18_Snapshot ==
  [][\A s \in Slots :
       LET c == calls'[s]
       IN /\ Diffs(s)
             => /\ c.after = Listeners(on, "update:after")
                /\ \A k \in Range(c.changed) :
                     /\ Generic(c.log, "before", k) = Listeners(on, "update")
                     /\ c.pc = "done"
                        => Generic(c.log, "after", k) = Listeners(on, "update:after")
          /\ Running(s) /\ ~Diffs(s)
             => /\ c.after = calls[s].after
                /\ c.pc = "done" /\ c.ctx # "init_first"
                   => \A k \in Range(c.changed) :
                        Generic(c.log, "after", k) = calls[s].after]_vars

C18_Witness ==
  /\ calls["c1"].pc = "done" /\ calls["c1"].op = "update" /\ calls["c1"].saveFile
  /\ calls["c1"].changed # << >>
  /\ calls["c1"].after = <<"LA">>
  /\ Listeners(on, "update:after") = <<"P", "P">>
  /\ calls["c2"].op = "off"
  /\ "LA" \in {calls["c1"].log[i].cb : i \in 1..Len(calls["c1"].log)}

\* C20: on(event, cb) puts cb at the end of the event's list; off(event, cb)
\* takes the first occurrence of cb out of the event's list and leaves the
\* other entries in their order, and leaves the list as it is when cb is not
\* in it; neither changes the list of another event.
C20_Registry ==
  [][\A s \in Slots :
       LET c == calls'[s]
           old == Listeners(on, c.ev)
           new == Listeners(on', c.ev)
       IN c.op \in {"on", "off"} /\ (c # calls[s] \/ on' # on)
          => /\ \A e \in DOMAIN on \cup DOMAIN on' :
                  e # c.ev => Listeners(on', e) = Listeners(on, e)
             /\ c.op = "on" => new = old \o <<c.cb>>
             /\ c.op = "off" /\ c.cb \notin Range(old) => new = old
             /\ c.op = "off" /\ c.cb \in Range(old)
                => \E i \in 1..Len(old) :
                     /\ old[i] = c.cb
                     /\ \A j \in 1..(i - 1) : old[j] # c.cb
                     /\ new = [j \in 1..(Len(old) - 1) |->
                                 IF j < i THEN old[j] ELSE old[j + 1]]]_vars

C20_Witness ==
  \E s \in Slots :
    /\ calls[s].op = "off" /\ calls[s].ev = "update" /\ calls[s].cb = "L"
    /\ Listeners(on, "update") = <<"P", "L">>
    /\ Listeners(on, "fresh") = <<"P">>

====
